---- MODULE Spec2Model ----
(***************************************************************************)
(* Model of the safe-local-exec provisioner (package exec, applyFn and     *)
(* copyOutput).  One invocation of applyFn is the coordinator; the drain   *)
(* goroutine (copyOutput), the spawned command, one descendant of it, the  *)
(* deadline timer of cmdCtx and the caller's context are the concurrent    *)
(* parties.                                                                *)
(*                                                                         *)
(* Library calls are modelled by their documented contracts:               *)
(*   context.WithTimeout(parent, d): the context is already done when      *)
(*     d <= 0, otherwise it becomes done when the timer fires or cancel()  *)
(*     is called;                                                          *)
(*   exec.CommandContext(ctx, ...): Start fails with ctx.Err() when ctx is *)
(*     already done; the process is killed (os.Process.Kill) when ctx      *)
(*     becomes done before the command completes on its own;               *)
(*   cmd.Wait(): returns once the process has exited and reaps it;         *)
(*   syscall.Getpgid(pid): fails (ESRCH) when no process has that pid;     *)
(*   select: any ready case may be taken.                                  *)
(***************************************************************************)
EXTENDS Integers, Sequences, FiniteSets, TLC

\* ------------------------------------------------------------------ bounds
\* Most lines the command and its descendant write in one invocation.
MaxOut == 2
\* Lines the OS pipe holds before a writer blocks.
PipeCap == 1
\* Bytes of one output line (terminator included).
LineBytes == 5000

\* ------------------------------------------------------------------ inputs
\* data.Get("command")
Commands == {"", "sleep"}
\* data.Get("interpreter"): <<>> is absent
Interpreters == {<<>>, <<"/bin/bash", "-c">>}
\* data.GetOk("timeout"): absent or 0 is the zero value
ReqTimeouts == {0, 10}
\* os.Getenv("MAX_TIMEOUT") as a sequence of characters; <<>> is unset/empty
EnvValues ==
    { <<>>, <<"0">>, <<"5">>, <<"2", "0">>, <<"-", "5">>,
      <<"x">>, <<"5", "x">>, <<"-">> }

\* --------------------------------------------------------------- constants
\* maxBufSize with twice the capacity
maxBufSize_Doubled == 16 * 1024

maxBufSize == 8 * 1024
SIGTERM == 15

VARIABLES
    command,        \* the command text of the request
    interpreter,    \* the interpreter list of the request
    reqTimeout,     \* the requested timeout of the request
    envMaxTimeout,  \* the text of MAX_TIMEOUT
    pc,             \* the coordinator's position in applyFn
    timeout,        \* local variable timeout
    err,            \* local variable err (result of Start / Wait)
    result,         \* what applyFn returned
    cmdCtx,         \* "none" | "armed" | "expired" | "cancelled"
    ctxDone,        \* the caller's ctx is cancelled
    cancelledRunning, \* the caller cancelled while the command was running
    pwHolders,      \* who holds the pipe's write end open
    pipe,           \* lines in the OS pipe, oldest first
    nwritten,       \* lines written into the pipe so far
    output,         \* the circular buffer: [lines, skip]
    lrPending,      \* lines read by the tee, not yet passed to o.Output
    sink,           \* what o.Output received, in order
    drain,          \* "idle" | "running" | "closed" (copyDoneCh closed)
    cmdProcess,     \* cmd.Process: "nil" | "set"
    proc,           \* "none" | "running" | "exit0" | "exit1" | "killed"
    reaped,         \* the process was waited for: its pid is free
    pidReused,      \* an unrelated process got the freed pid
    gc,             \* the descendant: "none" | "running" | "dead"
    gcInGroup,      \* the descendant is in the command's process group
    groupSignal,    \* the syscall.Kill(-pgid, 15) made: group "own"|"foreign"
    killCount,      \* calls of syscall.Kill made by applyFn
    raceWinner      \* the select case taken: "none"|"copyDone"|"ctx"|"cmdCtx"

vars ==
    << command, interpreter, reqTimeout, envMaxTimeout, pc, timeout, err,
       result, cmdCtx, ctxDone, cancelledRunning, pwHolders, pipe, nwritten,
       output, lrPending, sink, drain, cmdProcess, proc, reaped, pidReused,
       gc, gcInGroup, groupSignal, killCount, raceWinner >>

\* ------------------------------------------------------------ strconv.Atoi
Digits == {"0", "1", "2", "3", "4", "5", "6", "7", "8", "9"}

DigitVal(c) ==
    CASE c = "0" -> 0 [] c = "1" -> 1 [] c = "2" -> 2 [] c = "3" -> 3
      [] c = "4" -> 4 [] c = "5" -> 5 [] c = "6" -> 6 [] c = "7" -> 7
      [] c = "8" -> 8 [] c = "9" -> 9

RECURSIVE ParseDigits(_, _)
ParseDigits(s, acc) ==
    IF s = <<>> THEN acc
    ELSE ParseDigits(Tail(s), acc * 10 + DigitVal(Head(s)))

\* the text after an optional sign
Unsigned(s) == IF s # <<>> /\ Head(s) \in {"+", "-"} THEN Tail(s) ELSE s

\* strconv.Atoi returns a nil error
AtoiOk(s) ==
    /\ Unsigned(s) # <<>>
    /\ \A i \in 1..Len(Unsigned(s)) : Unsigned(s)[i] \in Digits

\* strconv.Atoi's value
Atoi(s) ==
    IF s # <<>> /\ Head(s) = "-"
    THEN 0 - ParseDigits(Unsigned(s), 0)
    ELSE ParseDigits(Unsigned(s), 0)

\* --------------------------------------------------- the timeout of applyFn
\* lines 113-115: cap the request by the ceiling
CapTimeout(t, m) == IF t > m /\ m # 0 THEN m ELSE t

\* lines 117-119: the ceiling when nothing was requested
DefaultTimeout(t, m) == IF t = 0 THEN m ELSE t

\* lines 100-121, when MAX_TIMEOUT is unset or an integer
EffectiveTimeout(t, env) ==
    IF Len(env) # 0
    THEN DefaultTimeout(CapTimeout(t, Atoi(env)), Atoi(env))
    ELSE t

\* -------------------------------------------------------- circbuf.Buffer
EmptyBuffer == [lines |-> <<>>, skip |-> 0]

\* bytes the buffer retains
BufferSize(b) == Len(b.lines) * LineBytes - b.skip

\* drop the oldest bytes until the buffer fits its capacity
RECURSIVE Trim(_, _)
Trim(b, cap) ==
    IF BufferSize(b) <= cap THEN b
    ELSE IF BufferSize(b) - cap >= LineBytes - b.skip
         THEN Trim([lines |-> Tail(b.lines), skip |-> 0], cap)
         ELSE [lines |-> b.lines, skip |-> b.skip + (BufferSize(b) - cap)]

\* BufferWrite that never discards: the buffer grows without bound
BufferWrite_Unbounded(b, line) ==
    [lines |-> Append(b.lines, line), skip |-> b.skip]

\* Buffer.Write of one line
BufferWrite(b, line) ==
    Trim([lines |-> Append(b.lines, line), skip |-> b.skip], maxBufSize)

\* ----------------------------------------------------------------- results
NoResult == [kind |-> "none", err |-> "nil", command |-> "", output |-> EmptyBuffer]

Success == [kind |-> "Success", err |-> "nil", command |-> "", output |-> EmptyBuffer]

\* an error returned without the run format (lines 67, 111, 128)
PlainError(e) ==
    [kind |-> "Failure", err |-> e, command |-> "", output |-> EmptyBuffer]

\* fmt.Errorf("Error running command '%s': %v. Output: %s", ...)
RunError(c, e, out) ==
    [kind |-> "Failure", err |-> e, command |-> c, output |-> out]

\* syscall.Kill(-pgid, sig): the group signalled and the signal
NoSignal == [target |-> "none", sig |-> 0]

Kill(pgid, sig) == [target |-> pgid, sig |-> sig]

\* -------------------------------------------------------------------- Init
Init ==
    /\ command \in Commands
    /\ interpreter \in Interpreters
    /\ reqTimeout \in ReqTimeouts
    /\ envMaxTimeout \in EnvValues
    /\ pc = "validate"
    /\ timeout = 0
    /\ err = "nil"
    /\ result = NoResult
    /\ cmdCtx = "none"
    /\ ctxDone = FALSE
    /\ cancelledRunning = FALSE
    /\ pwHolders = {}
    /\ pipe = <<>>
    /\ nwritten = 0
    /\ output = EmptyBuffer
    /\ lrPending = <<>>
    /\ sink = <<>>
    /\ drain = "idle"
    /\ cmdProcess = "nil"
    /\ proc = "none"
    /\ reaped = FALSE
    /\ pidReused = FALSE
    /\ gc = "none"
    /\ gcInGroup = FALSE
    /\ groupSignal = NoSignal
    /\ killCount = 0
    /\ raceWinner = "none"

\* ------------------------------------------------------------ coordinator
\* Cmdargs that always uses the default shell
Cmdargs_DefaultShellOnly == Append(<<"/bin/sh", "-c">>, command)

\* the resolved argument vector (lines 80-96): the interpreter, or the
\* default shell of a non-Windows build, followed by the command
Cmdargs ==
    IF Len(interpreter) > 0
    THEN Append(interpreter, command)
    ELSE Append(<<"/bin/sh", "-c">>, command)

\* Validate without the test of line 66
Validate_NoCheck ==
    /\ pc = "validate"
    /\ pc' = "timeout"
    /\ UNCHANGED << command, interpreter, reqTimeout, envMaxTimeout, timeout,
                    err, result, cmdCtx, ctxDone, cancelledRunning, pwHolders,
                    pipe, nwritten, output, lrPending, sink, drain,
                    cmdProcess, proc, reaped, pidReused, gc, gcInGroup,
                    groupSignal, killCount, raceWinner >>

\* lines 65-68: an empty command is rejected
Validate ==
    /\ pc = "validate"
    /\ IF command = ""
       THEN /\ result' = PlainError("command must be a non-empty string")
            /\ pc' = "done"
       ELSE /\ pc' = "timeout"
            /\ UNCHANGED result
    /\ UNCHANGED << command, interpreter, reqTimeout, envMaxTimeout, timeout, err, cmdCtx,
                    ctxDone, cancelledRunning, pwHolders, pipe, nwritten,
                    output, lrPending, sink, drain, cmdProcess, proc, reaped,
                    pidReused, gc, gcInGroup, groupSignal, killCount, raceWinner >>

\* ComputeTimeout that drops the error of strconv.Atoi: the ceiling is 0
ComputeTimeout_IgnoresErr ==
    /\ pc = "timeout"
    /\ timeout' = IF Len(envMaxTimeout) # 0 /\ AtoiOk(envMaxTimeout)
                  THEN EffectiveTimeout(reqTimeout, envMaxTimeout)
                  ELSE reqTimeout
    /\ pc' = "pipe"
    /\ UNCHANGED << command, interpreter, reqTimeout, envMaxTimeout, err,
                    result, cmdCtx, ctxDone, cancelledRunning, pwHolders,
                    pipe, nwritten, output, lrPending, sink, drain,
                    cmdProcess, proc, reaped, pidReused, gc, gcInGroup,
                    groupSignal, killCount, raceWinner >>

\* lines 100-121: the requested timeout, capped or supplied by MAX_TIMEOUT
ComputeTimeout ==
    /\ pc = "timeout"
    /\ IF Len(envMaxTimeout) # 0 /\ ~AtoiOk(envMaxTimeout)
       THEN /\ result' = PlainError("strconv.Atoi: invalid syntax")
            /\ pc' = "done"
            /\ timeout' = reqTimeout
       ELSE /\ timeout' = EffectiveTimeout(reqTimeout, envMaxTimeout)
            /\ pc' = "pipe"
            /\ UNCHANGED result
    /\ UNCHANGED << command, interpreter, reqTimeout, envMaxTimeout, err, cmdCtx, ctxDone,
                    cancelledRunning, pwHolders, pipe, nwritten, output,
                    lrPending, sink, drain, cmdProcess, proc, reaped,
                    pidReused, gc, gcInGroup, groupSignal, killCount, raceWinner >>

\* lines 126-129: os.Pipe, which the OS may refuse
OpenPipe ==
    /\ pc = "pipe"
    /\ \E ok \in BOOLEAN :
         IF ok
         THEN /\ pwHolders' = {"parent"}
              /\ pc' = "ctx"
              /\ UNCHANGED result
         ELSE /\ result' = PlainError("failed to initialize pipe for output")
              /\ pc' = "done"
              /\ UNCHANGED pwHolders
    /\ UNCHANGED << command, interpreter, reqTimeout, envMaxTimeout, timeout, err, cmdCtx,
                    ctxDone, cancelledRunning, pipe, nwritten, output,
                    lrPending, sink, drain, cmdProcess, proc, reaped,
                    pidReused, gc, gcInGroup, groupSignal, killCount, raceWinner >>

\* context.WithTimeout: done at once when the duration is not positive
WithTimeout(d) == IF d <= 0 THEN "expired" ELSE "armed"

\* lines 135-139: the deadline context the command is bound to
CreateContext ==
    /\ pc = "ctx"
    /\ cmdCtx' = WithTimeout(timeout)
    /\ pc' = "spawn"
    /\ UNCHANGED << command, interpreter, reqTimeout, envMaxTimeout, timeout, err, result,
                    ctxDone, cancelledRunning, pwHolders, pipe, nwritten,
                    output, lrPending, sink, drain, cmdProcess, proc, reaped,
                    pidReused, gc, gcInGroup, groupSignal, killCount, raceWinner >>

\* SpawnDrain without the go statement: nothing reads the pipe
SpawnDrain_NoDrain ==
    /\ pc = "spawn"
    /\ output' = EmptyBuffer
    /\ sink' = Append(sink, <<"Executing", Cmdargs>>)
    /\ pc' = "start"
    /\ UNCHANGED << command, interpreter, reqTimeout, envMaxTimeout, timeout, err, result,
                    cmdCtx, ctxDone, cancelledRunning, pwHolders, pipe,
                    nwritten, lrPending, drain, cmdProcess, proc, reaped,
                    pidReused, gc, gcInGroup, groupSignal, killCount, raceWinner >>

\* lines 156-166: the buffer, the tee, go copyOutput, the "Executing" line
SpawnDrain ==
    /\ pc = "spawn"
    /\ output' = EmptyBuffer
    /\ drain' = "running"
    /\ sink' = Append(sink, <<"Executing", Cmdargs>>)
    /\ pc' = "start"
    /\ UNCHANGED << command, interpreter, reqTimeout, envMaxTimeout, timeout, err, result,
                    cmdCtx, ctxDone, cancelledRunning, pwHolders, pipe,
                    nwritten, lrPending, cmdProcess, proc, reaped, pidReused,
                    gc, gcInGroup, groupSignal, killCount, raceWinner >>

\* line 169: cmd.Start; it fails when cmdCtx is already done or the OS refuses
Start ==
    /\ pc = "start"
    /\ IF cmdCtx = "expired"
       THEN /\ err' = "context deadline exceeded"
            /\ pc' = "closepw"
            /\ UNCHANGED << cmdProcess, proc, pwHolders >>
       ELSE \E ok \in BOOLEAN :
              IF ok
              THEN /\ err' = "nil"
                   /\ cmdProcess' = "set"
                   /\ proc' = "running"
                   /\ pwHolders' = pwHolders \cup {"child"}
                   /\ pc' = "wait"
              ELSE /\ err' = "fork/exec failed"
                   /\ pc' = "closepw"
                   /\ UNCHANGED << cmdProcess, proc, pwHolders >>
    /\ UNCHANGED << command, interpreter, reqTimeout, envMaxTimeout, timeout, result,
                    cmdCtx, ctxDone, cancelledRunning, pipe, nwritten, output,
                    lrPending, sink, drain, reaped, pidReused, gc, gcInGroup,
                    groupSignal, killCount, raceWinner >>

\* WaitError with a killed process reported as a clean exit
WaitError_KilledIsNil(p) ==
    CASE p = "exit0" -> "nil"
      [] p = "exit1" -> "exit status 1"
      [] p = "killed" -> "nil"

\* the error cmd.Wait returns for a process state
WaitError(p) ==
    CASE p = "exit0" -> "nil"
      [] p = "exit1" -> "exit status 1"
      [] p = "killed" -> "signal: killed"

\* line 171: cmd.Wait returns when the process has exited, and reaps it
Wait ==
    /\ pc = "wait"
    /\ proc \in {"exit0", "exit1", "killed"}
    /\ err' = WaitError(proc)
    /\ reaped' = TRUE
    /\ pc' = "closepw"
    /\ UNCHANGED << command, interpreter, reqTimeout, envMaxTimeout, timeout, result,
                    cmdCtx, ctxDone, cancelledRunning, pwHolders, pipe,
                    nwritten, output, lrPending, sink, drain, cmdProcess,
                    proc, pidReused, gc, gcInGroup, groupSignal, killCount, raceWinner >>

\* ClosePw that leaves the write end open
ClosePw_Skips ==
    /\ pc = "closepw"
    /\ pc' = "select"
    /\ UNCHANGED << command, interpreter, reqTimeout, envMaxTimeout, timeout,
                    err, result, cmdCtx, ctxDone, cancelledRunning, pwHolders,
                    pipe, nwritten, output, lrPending, sink, drain,
                    cmdProcess, proc, reaped, pidReused, gc, gcInGroup,
                    groupSignal, killCount, raceWinner >>

\* line 176: pw.Close()
ClosePw ==
    /\ pc = "closepw"
    /\ pwHolders' = pwHolders \ {"parent"}
    /\ pc' = "select"
    /\ UNCHANGED << command, interpreter, reqTimeout, envMaxTimeout, timeout, err, result,
                    cmdCtx, ctxDone, cancelledRunning, pipe, nwritten, output,
                    lrPending, sink, drain, cmdProcess, proc, reaped,
                    pidReused, gc, gcInGroup, groupSignal, killCount, raceWinner >>

\* SelectCopyDone that does not wait for copyDoneCh to be closed
SelectCopyDone_NoWait ==
    /\ pc = "select"
    /\ raceWinner' = "copyDone"
    /\ pc' = "finalize"
    /\ UNCHANGED << command, interpreter, reqTimeout, envMaxTimeout, timeout, err, result,
                    cmdCtx, ctxDone, cancelledRunning, pwHolders, pipe,
                    nwritten, output, lrPending, sink, drain, cmdProcess,
                    proc, reaped, pidReused, gc, gcInGroup, groupSignal, killCount >>

\* line 183: case <-copyDoneCh
SelectCopyDone ==
    /\ pc = "select"
    /\ drain = "closed"
    /\ raceWinner' = "copyDone"
    /\ pc' = "finalize"
    /\ UNCHANGED << command, interpreter, reqTimeout, envMaxTimeout, timeout, err, result,
                    cmdCtx, ctxDone, cancelledRunning, pwHolders, pipe,
                    nwritten, output, lrPending, sink, drain, cmdProcess,
                    proc, reaped, pidReused, gc, gcInGroup, groupSignal, killCount >>

\* syscall.Getpgid(cmd.Process.Pid): the group of whichever process has the
\* pid now, or ESRCH when none has
Getpgid ==
    IF proc \in {"running", "exit0", "exit1", "killed"} /\ ~reaped THEN "own"
    ELSE IF pidReused THEN "foreign"
    ELSE "ESRCH"

\* SelectCtxDone that signals the process group as the deadline case does
SelectCtxDone_Signals ==
    /\ pc = "select"
    /\ ctxDone
    /\ raceWinner' = "ctx"
    /\ pc' = "finalize"
    /\ IF cmdProcess = "nil" \/ Getpgid = "ESRCH"
       THEN UNCHANGED << groupSignal, killCount >>
       ELSE /\ groupSignal' = Kill(Getpgid, SIGTERM)
            /\ killCount' = killCount + 1
    /\ UNCHANGED << command, interpreter, reqTimeout, envMaxTimeout, timeout,
                    err, result, cmdCtx, ctxDone, cancelledRunning, pwHolders,
                    pipe, nwritten, output, lrPending, sink, drain,
                    cmdProcess, proc, reaped, pidReused, gc, gcInGroup >>

\* line 184: case <-ctx.Done()
SelectCtxDone ==
    /\ pc = "select"
    /\ ctxDone
    /\ raceWinner' = "ctx"
    /\ pc' = "finalize"
    /\ UNCHANGED << command, interpreter, reqTimeout, envMaxTimeout, timeout, err, result,
                    cmdCtx, ctxDone, cancelledRunning, pwHolders, pipe,
                    nwritten, output, lrPending, sink, drain, cmdProcess,
                    proc, reaped, pidReused, gc, gcInGroup, groupSignal, killCount >>

\* SelectCmdCtxDone taken only once the drain task has finished: a select
\* without the cmdCtx.Done() case
SelectCmdCtxDone_WaitsForDrain ==
    /\ pc = "select"
    /\ cmdCtx = "expired"
    /\ drain = "closed"
    /\ raceWinner' = "cmdCtx"
    /\ pc' = IF cmdProcess = "nil" THEN "panic" ELSE "finalize"
    /\ UNCHANGED << command, interpreter, reqTimeout, envMaxTimeout, timeout, err, result,
                    cmdCtx, ctxDone, cancelledRunning, pwHolders, pipe,
                    nwritten, output, lrPending, sink, drain, cmdProcess,
                    proc, reaped, pidReused, gc, gcInGroup, groupSignal, killCount >>

\* lines 185-191: case <-cmdCtx.Done(), with the group-wide signal
SelectCmdCtxDone ==
    /\ pc = "select"
    /\ cmdCtx = "expired"
    /\ raceWinner' = "cmdCtx"
    /\ IF cmdProcess = "nil"
       THEN \* cmd.Process.Pid dereferences a nil *os.Process
            /\ pc' = "panic"
            /\ UNCHANGED << groupSignal, killCount, gc, pwHolders >>
       ELSE /\ pc' = "finalize"
            /\ IF Getpgid = "ESRCH"
               THEN UNCHANGED << groupSignal, killCount, gc, pwHolders >>
               ELSE /\ groupSignal' = Kill(Getpgid, SIGTERM)
                    /\ killCount' = killCount + 1
                    /\ IF Getpgid = "own" /\ gc = "running" /\ gcInGroup
                       THEN /\ gc' = "dead"
                            /\ pwHolders' = pwHolders \ {"gc"}
                       ELSE UNCHANGED << gc, pwHolders >>
    /\ UNCHANGED << command, interpreter, reqTimeout, envMaxTimeout, timeout, err, result,
                    cmdCtx, ctxDone, cancelledRunning, pipe, nwritten, output,
                    lrPending, sink, drain, cmdProcess, proc, reaped,
                    pidReused, gcInGroup >>

\* lines 194-199 and the deferred cancel() of line 136
Finalize ==
    /\ pc = "finalize"
    /\ result' = IF err # "nil" THEN RunError(command, err, output) ELSE Success
    /\ cmdCtx' = IF cmdCtx = "armed" THEN "cancelled" ELSE cmdCtx
    /\ pc' = "done"
    /\ UNCHANGED << command, interpreter, reqTimeout, envMaxTimeout, timeout, err, ctxDone,
                    cancelledRunning, pwHolders, pipe, nwritten, output,
                    lrPending, sink, drain, cmdProcess, proc, reaped,
                    pidReused, gc, gcInGroup, groupSignal, killCount, raceWinner >>

\* ------------------------------------------------------- the drain task
\* the goroutines of copyOutput and of the line reader end with the process
DrainAlive == drain = "running" /\ pc # "panic"

\* DrainRead that reads on while a line waits for o.Output, and loses it
DrainRead_Overwrite ==
    /\ DrainAlive
    /\ pipe # <<>>
    /\ output' = BufferWrite(output, Head(pipe))
    /\ lrPending' = <<Head(pipe)>>
    /\ pipe' = Tail(pipe)
    /\ UNCHANGED << command, interpreter, reqTimeout, envMaxTimeout, pc, timeout, err,
                    result, cmdCtx, ctxDone, cancelledRunning, pwHolders,
                    nwritten, sink, drain, cmdProcess, proc, reaped,
                    pidReused, gc, gcInGroup, groupSignal, killCount, raceWinner >>

\* the tee reads one line from the pipe and writes it to the buffer
DrainRead ==
    /\ DrainAlive
    /\ lrPending = <<>>
    /\ pipe # <<>>
    /\ output' = BufferWrite(output, Head(pipe))
    /\ lrPending' = <<Head(pipe)>>
    /\ pipe' = Tail(pipe)
    /\ UNCHANGED << command, interpreter, reqTimeout, envMaxTimeout, pc, timeout, err,
                    result, cmdCtx, ctxDone, cancelledRunning, pwHolders,
                    nwritten, sink, drain, cmdProcess, proc, reaped,
                    pidReused, gc, gcInGroup, groupSignal, killCount, raceWinner >>

\* lines 205-207: o.Output(line) for the line received from lr.Ch
DrainEmit ==
    /\ DrainAlive
    /\ lrPending # <<>>
    /\ sink' = Append(sink, <<"line", Head(lrPending)>>)
    /\ lrPending' = Tail(lrPending)
    /\ UNCHANGED << command, interpreter, reqTimeout, envMaxTimeout, pc, timeout, err,
                    result, cmdCtx, ctxDone, cancelledRunning, pwHolders,
                    pipe, nwritten, output, drain, cmdProcess, proc, reaped,
                    pidReused, gc, gcInGroup, groupSignal, killCount, raceWinner >>

\* DrainClose that signals completion without waiting for end of stream
DrainClose_BeforeEOF ==
    /\ DrainAlive
    /\ lrPending = <<>>
    /\ pipe = <<>>
    /\ drain' = "closed"
    /\ UNCHANGED << command, interpreter, reqTimeout, envMaxTimeout, pc,
                    timeout, err, result, cmdCtx, ctxDone, cancelledRunning,
                    pwHolders, pipe, nwritten, output, lrPending, sink,
                    cmdProcess, proc, reaped, pidReused, gc, gcInGroup,
                    groupSignal, killCount, raceWinner >>

\* line 203: end of stream (no holder of the write end is left), lr.Ch is
\* closed, the loop ends and the deferred close(doneCh) runs
DrainClose ==
    /\ DrainAlive
    /\ lrPending = <<>>
    /\ pipe = <<>>
    /\ pwHolders = {}
    /\ drain' = "closed"
    /\ UNCHANGED << command, interpreter, reqTimeout, envMaxTimeout, pc, timeout, err,
                    result, cmdCtx, ctxDone, cancelledRunning, pwHolders,
                    pipe, nwritten, output, lrPending, sink, cmdProcess,
                    proc, reaped, pidReused, gc, gcInGroup, groupSignal, killCount,
                    raceWinner >>

\* ------------------------------------------------ the command, the contexts
\* the command writes a line to its stdout/stderr; it blocks on a full pipe
ChildWrite ==
    /\ proc = "running"
    /\ nwritten < MaxOut
    /\ Len(pipe) < PipeCap
    /\ pipe' = Append(pipe, nwritten + 1)
    /\ nwritten' = nwritten + 1
    /\ UNCHANGED << command, interpreter, reqTimeout, envMaxTimeout, pc, timeout, err,
                    result, cmdCtx, ctxDone, cancelledRunning, pwHolders,
                    output, lrPending, sink, drain, cmdProcess, proc, reaped,
                    pidReused, gc, gcInGroup, groupSignal, killCount, raceWinner >>

\* the command starts a descendant, which inherits the process group (line
\* 142: Setpgid) and the pipe unless it leaves the one or closes the other
ChildFork ==
    /\ proc = "running"
    /\ gc = "none"
    /\ gc' = "running"
    /\ \E inGroup \in BOOLEAN, holdsPipe \in BOOLEAN :
         /\ gcInGroup' = inGroup
         /\ pwHolders' = IF holdsPipe THEN pwHolders \cup {"gc"} ELSE pwHolders
    /\ UNCHANGED << command, interpreter, reqTimeout, envMaxTimeout, pc, timeout, err,
                    result, cmdCtx, ctxDone, cancelledRunning, pipe, nwritten,
                    output, lrPending, sink, drain, cmdProcess, proc, reaped,
                    pidReused, groupSignal, killCount, raceWinner >>

\* the command exits on its own, with status 0 or 1
ChildExit ==
    /\ proc = "running"
    /\ \E p \in {"exit0", "exit1"} : proc' = p
    /\ pwHolders' = pwHolders \ {"child"}
    /\ UNCHANGED << command, interpreter, reqTimeout, envMaxTimeout, pc, timeout, err,
                    result, cmdCtx, ctxDone, cancelledRunning, pipe, nwritten,
                    output, lrPending, sink, drain, cmdProcess, reaped,
                    pidReused, gc, gcInGroup, groupSignal, killCount, raceWinner >>

\* the descendant writes a line to the inherited pipe
GrandchildWrite ==
    /\ gc = "running"
    /\ "gc" \in pwHolders
    /\ nwritten < MaxOut
    /\ Len(pipe) < PipeCap
    /\ pipe' = Append(pipe, nwritten + 1)
    /\ nwritten' = nwritten + 1
    /\ UNCHANGED << command, interpreter, reqTimeout, envMaxTimeout, pc, timeout, err,
                    result, cmdCtx, ctxDone, cancelledRunning, pwHolders,
                    output, lrPending, sink, drain, cmdProcess, proc, reaped,
                    pidReused, gc, gcInGroup, groupSignal, killCount, raceWinner >>

\* the descendant exits on its own
GrandchildExit ==
    /\ gc = "running"
    /\ gc' = "dead"
    /\ pwHolders' = pwHolders \ {"gc"}
    /\ UNCHANGED << command, interpreter, reqTimeout, envMaxTimeout, pc, timeout, err,
                    result, cmdCtx, ctxDone, cancelledRunning, pipe, nwritten,
                    output, lrPending, sink, drain, cmdProcess, proc, reaped,
                    pidReused, gcInGroup, groupSignal, killCount, raceWinner >>

\* the timer of cmdCtx fires (line 135); exec.CommandContext kills the
\* process if it has not completed on its own (line 139)
DeadlineExpire ==
    /\ cmdCtx = "armed"
    /\ cmdCtx' = "expired"
    /\ IF proc = "running"
       THEN /\ proc' = "killed"
            /\ pwHolders' = pwHolders \ {"child"}
       ELSE UNCHANGED << proc, pwHolders >>
    /\ UNCHANGED << command, interpreter, reqTimeout, envMaxTimeout, pc, timeout, err,
                    result, ctxDone, cancelledRunning, pipe, nwritten, output,
                    lrPending, sink, drain, cmdProcess, reaped, pidReused,
                    gc, gcInGroup, groupSignal, killCount, raceWinner >>

\* the caller cancels ctx during the call; the command is bound to cmdCtx,
\* which derives from context.Background() (line 135), not from ctx
CallerCancel ==
    /\ pc \notin {"done", "panic"}
    /\ ~ctxDone
    /\ ctxDone' = TRUE
    /\ cancelledRunning' = (proc = "running")
    /\ UNCHANGED << command, interpreter, reqTimeout, envMaxTimeout, pc, timeout, err,
                    result, cmdCtx, pwHolders, pipe, nwritten, output,
                    lrPending, sink, drain, cmdProcess, proc, reaped,
                    pidReused, gc, gcInGroup, groupSignal, killCount, raceWinner >>

\* the OS gives the pid of the reaped process to an unrelated process; a pid
\* is not reused while a process group with that id has members
PidReuse ==
    /\ pc \in {"closepw", "select"}
    /\ reaped
    /\ ~pidReused
    /\ ~(gc = "running" /\ gcInGroup)
    /\ pidReused' = TRUE
    /\ UNCHANGED << command, interpreter, reqTimeout, envMaxTimeout, pc, timeout, err,
                    result, cmdCtx, ctxDone, cancelledRunning, pwHolders,
                    pipe, nwritten, output, lrPending, sink, drain,
                    cmdProcess, proc, reaped, gc, gcInGroup, groupSignal, killCount,
                    raceWinner >>

\* ------------------------------------------------------------ specification
Next ==
    \/ Validate
    \/ ComputeTimeout
    \/ OpenPipe
    \/ CreateContext
    \/ SpawnDrain
    \/ Start
    \/ Wait
    \/ ClosePw
    \/ SelectCopyDone
    \/ SelectCtxDone
    \/ SelectCmdCtxDone
    \/ Finalize
    \/ DrainRead
    \/ DrainEmit
    \/ DrainClose
    \/ ChildWrite
    \/ ChildFork
    \/ ChildExit
    \/ GrandchildWrite
    \/ GrandchildExit
    \/ DeadlineExpire
    \/ CallerCancel
    \/ PidReuse

Spec == Init /\ [][Next]_vars

\* The coordinator and the drain task are scheduled when they can run, and
\* the timer of an armed deadline fires; the command, its descendant and the
\* caller are free to do nothing.
Fairness ==
    /\ WF_vars(Validate)
    /\ WF_vars(ComputeTimeout)
    /\ WF_vars(OpenPipe)
    /\ WF_vars(CreateContext)
    /\ WF_vars(SpawnDrain)
    /\ WF_vars(Start)
    /\ WF_vars(Wait)
    /\ WF_vars(ClosePw)
    /\ WF_vars(SelectCopyDone \/ SelectCtxDone \/ SelectCmdCtxDone)
    /\ WF_vars(Finalize)
    /\ WF_vars(DrainRead)
    /\ WF_vars(DrainEmit)
    /\ WF_vars(DrainClose)
    /\ WF_vars(DeadlineExpire)

LiveSpec == Spec /\ Fairness

\* ---------------------------------------------------------------- claims
\* o.Output calls that carry a line of command output, in order
RECURSIVE OutputLines(_)
OutputLines(q) ==
    IF q = <<>> THEN <<>>
    ELSE IF Head(q)[1] = "line" THEN <<Head(q)[2]>> \o OutputLines(Tail(q))
    ELSE OutputLines(Tail(q))

\* the deadline of cmdCtx elapsed while the spawned command was running
TimedOut == proc = "killed"

\* C1: when the effective timeout elapses before the command exits on its
\* own, applyFn returns a non-nil error whose message contains the command
\* text.
C1_TimeoutIsFailure ==
    (pc = "done" /\ TimedOut) =>
        /\ result.kind = "Failure"
        /\ result.command = command
        /\ command # ""

C1_Witness ==
    /\ pc = "done"
    /\ TimedOut
    /\ result.kind = "Failure"
    /\ result.err = "signal: killed"

\* C2: when the effective timeout elapsed before the command exited on its
\* own, at the moment applyFn returns neither the spawned process nor a
\* descendant still in its process group is running.
C2_NoSurvivorAtReturn ==
    (pc = "done" /\ TimedOut) =>
        /\ proc # "running"
        /\ ~(gc = "running" /\ gcInGroup)

\* C3: cancelling the caller's ctx while the command is running and the
\* deadline has not expired terminates the bound process, signals its
\* process group and makes applyFn return Failure, as a timeout does.
C3_CallerCancelKills ==
    (pc = "done" /\ cancelledRunning /\ cmdCtx # "expired") =>
        /\ proc = "killed"
        /\ groupSignal.target = "own"
        /\ result.kind = "Failure"

\* C4: a command that starts and exits with status 0 before its deadline
\* yields Success whatever it wrote, and while it runs the drain task is
\* there to empty a full pipe.
C4_ExitZeroIsSuccess ==
    /\ (pc = "done" /\ proc = "exit0") => result = Success
    /\ (proc = "running" /\ Len(pipe) = PipeCap) =>
           (DrainAlive /\ (ENABLED DrainRead \/ ENABLED DrainEmit))

C4_Witness ==
    /\ pc = "done"
    /\ proc = "exit0"
    /\ result = Success
    /\ nwritten = MaxOut
    /\ nwritten > PipeCap
    /\ nwritten * LineBytes > maxBufSize
    /\ OutputLines(sink) = [i \in 1..MaxOut |-> i]

\* no timeout is requested and no ceiling is configured
NoTimeoutConfigured ==
    /\ reqTimeout = 0
    /\ \/ envMaxTimeout = <<>>
       \/ AtoiOk(envMaxTimeout) /\ Atoi(envMaxTimeout) = 0

\* C5: when the requested timeout and the ceiling are both 0 (or the ceiling
\* is unset), no deadline is enforced: the timeout context never fires and
\* the command is not refused or killed for it.
C5_NoDeadline ==
    NoTimeoutConfigured =>
        /\ cmdCtx # "expired"
        /\ err # "context deadline exceeded"

\* the timeout the specification derives from request r and ceiling text env
ClaimedTimeout(r, env) ==
    IF env = <<>> THEN r
    ELSE IF Atoi(env) > 0 /\ r > 0
         THEN (IF r < Atoi(env) THEN r ELSE Atoi(env))
    ELSE IF Atoi(env) > 0 /\ r = 0 THEN Atoi(env)
    ELSE r

\* C6: the timeout passed to the deadline context is min(r, c) when c > 0
\* and r > 0, c when r = 0 and c > 0, and r in every other case.
C6_EffectiveTimeout ==
    (pc \notin {"validate", "timeout"} /\ command # ""
        /\ (envMaxTimeout = <<>> \/ AtoiOk(envMaxTimeout))) =>
        timeout = ClaimedTimeout(reqTimeout, envMaxTimeout)

\* C7: once the final race is resolved, by whichever of its three events,
\* applyFn returns Failure exactly when Start or Wait returned an error, with
\* the command text and that error in the message, and Success otherwise.
C7_OutcomeFollowsErr ==
    (raceWinner # "none") =>
        /\ pc \in {"finalize", "done"}
        /\ pc = "done" =>
               IF err # "nil"
               THEN /\ result.kind = "Failure"
                    /\ result.command = command
                    /\ result.err = err
               ELSE result = Success

\* C7 holds of every execution in which the deadline case does not find
\* cmd.Process nil: the panic is its only exception.
C7_NoPanicCase ==
    (raceWinner # "none" /\ pc # "panic") =>
        /\ pc \in {"finalize", "done"}
        /\ pc = "done" =>
               IF err # "nil"
               THEN /\ result.kind = "Failure"
                    /\ result.command = command
                    /\ result.err = err
               ELSE result = Success

\* termination was requested: the deadline elapsed or the caller cancelled
TerminationRequested == ctxDone \/ cmdCtx = "expired"

\* C8: once termination has been requested for a spawned command, applyFn
\* eventually returns, also when a descendant keeps the pipe's write end
\* open for ever: the coordinator never waits for ever on the drain task.
C8_EventuallyReturns ==
    (TerminationRequested /\ cmdProcess = "set") ~> (pc = "done")

C8_Witness ==
    /\ pc = "done"
    /\ TerminationRequested
    /\ gc = "running"
    /\ "gc" \in pwHolders
    /\ drain = "running"

\* every line written so far is in the sink, with the drain task or in the
\* pipe, once and in emission order
InOrderOnce ==
    OutputLines(sink) \o lrPending \o pipe = [i \in 1..nwritten |-> i]

\* every line written so far has been passed to o.Output
AllDelivered == OutputLines(sink) = [i \in 1..nwritten |-> i]

C10_NothingAfterBytes ==
    [][(pc = "done" /\ result.kind = "Failure")
          => (sink' = sink /\ output' = output)]_vars

\* C10, amended: the same, for the executions whose final race was resolved
\* by the drain task's completion.
C10_NothingAfterBytesWhenDrained ==
    [][(pc = "done" /\ result.kind = "Failure" /\ raceWinner = "copyDone")
          => (sink' = sink /\ output' = output)]_vars

C10_Witness ==
    /\ pc = "done"
    /\ result.kind = "Failure"
    /\ raceWinner = "copyDone"
    /\ Len(OutputLines(sink)) = MaxOut
    /\ BufferSize(result.output) = maxBufSize

\* lines the tee has read from the pipe and written to the buffer
TeeRead == Len(OutputLines(sink)) + Len(lrPending)

\* the capacity the buffer is said to have: 8 KiB
ClaimedCapacity == 8192

\* the last 8 KiB of lines 1..k, as the lines they lie in and the bytes of
\* the first of them that fall outside
RecentBytes(k) ==
    LET total == k * LineBytes
        kept == IF total < ClaimedCapacity THEN total ELSE ClaimedCapacity
        n == (kept + LineBytes - 1) \div LineBytes
    IN  [lines |-> [i \in 1..n |-> k - n + i], skip |-> n * LineBytes - kept]

NoSideEffect ==
    /\ pwHolders = {}
    /\ drain = "idle"
    /\ sink = <<>>
    /\ proc = "none"
    /\ cmdProcess = "nil"
    /\ cmdCtx = "none"

\* C12: an empty command is rejected with a configuration error before any
\* side effect: no pipe, no drain task, no line to the sink, no process.
C12_EmptyCommandRejected ==
    (command = "") =>
        /\ pc \in {"validate", "done"}
        /\ NoSideEffect
        /\ pc = "done" => result = PlainError("command must be a non-empty string")

C12_Witness ==
    /\ command = ""
    /\ pc = "done"
    /\ result.kind = "Failure"

\* MAX_TIMEOUT is set and is not an integer
BadCeiling == envMaxTimeout # <<>> /\ ~AtoiOk(envMaxTimeout)

\* C13: a MAX_TIMEOUT that is set but not an integer makes applyFn return a
\* configuration error before the pipe is created, a process is spawned or
\* a line is emitted; an unset or empty MAX_TIMEOUT is not an error.
C13_BadCeilingRejected ==
    /\ BadCeiling =>
           /\ pc \in {"validate", "timeout", "done"}
           /\ NoSideEffect
           /\ pc = "done" => result.kind = "Failure"
           /\ (pc = "done" /\ command # "") =>
                  result = PlainError("strconv.Atoi: invalid syntax")
    /\ (envMaxTimeout = <<>>) => result.err # "strconv.Atoi: invalid syntax"

C13_Witness ==
    /\ command # ""
    /\ BadCeiling
    /\ pc = "done"
    /\ result = PlainError("strconv.Atoi: invalid syntax")

\* cmd.Start returned an error
StartFailed ==
    /\ cmdProcess = "nil"
    /\ err \in {"context deadline exceeded", "fork/exec failed"}

\* C14: when launching the process fails, the invocation ends in Failure
\* with the start error whatever the final race does, and no signal is sent.
C14_StartFailureIsFailure ==
    StartFailed =>
        /\ pc \in {"closepw", "select", "finalize", "done"}
        /\ groupSignal = NoSignal
        /\ pc = "done" => (result.kind = "Failure" /\ result.err = err)

\* C15: the process group signalled on termination is the one captured when
\* the command was spawned: the deadline case signals the command's own
\* group, and no other group is ever signalled.
C15_CapturedGroupOnly ==
    /\ (killCount > 0) => groupSignal.target = "own"
    /\ (raceWinner = "cmdCtx" /\ cmdProcess = "set") =>
           groupSignal.target = "own"

\* the coordinator is past the "Executing" line of line 166
PastSpawn ==
    \/ pc \in {"start", "wait", "closepw", "select", "finalize", "panic"}
    \/ pc = "done" /\ drain # "idle"

\* the argument vector the request resolves to
ResolvedArgv ==
    (IF interpreter = <<>> THEN <<"/bin/sh", "-c">> ELSE interpreter)
        \o <<command>>

\* C16: an invocation that passed validation and pipe creation gives the
\* sink exactly one "Executing" line with the resolved argument vector,
\* before the process is started and so before every line of its output.
C16_ExecutingLineFirst ==
    /\ PastSpawn =>
           /\ sink # <<>>
           /\ sink[1] = <<"Executing", ResolvedArgv>>
           /\ \A i \in 2..Len(sink) : sink[i][1] = "line"
    /\ ~PastSpawn => (sink = <<>> /\ proc = "none")

C16_Witness ==
    /\ pc = "done"
    /\ interpreter # <<>>
    /\ Len(sink) = MaxOut + 1
    /\ sink[1] = <<"Executing", ResolvedArgv>>

\* C17: the coordinator holds its write end of the pipe until Start or Wait
\* has returned, closes it exactly once, at line 176, on every path, and
\* enters the final race only afterwards.
C17_WriteEndClosedOnce ==
    /\ [](pc \in {"ctx", "spawn", "start", "wait", "closepw"}
             => "parent" \in pwHolders)
    /\ [](pc \in {"select", "finalize", "panic"} => "parent" \notin pwHolders)
    /\ [][("parent" \in pwHolders /\ "parent" \notin pwHolders')
             => (pc = "closepw" /\ pc' = "select")]_vars
    /\ [][("parent" \notin pwHolders /\ "parent" \in pwHolders')
             => pc = "pipe"]_vars

C17_Witness ==
    /\ pc = "select"
    /\ "parent" \notin pwHolders
    /\ err = "signal: killed"
    /\ "gc" \in pwHolders

\* C18: whenever the deadline case of the final race is taken, the process
\* handle it dereferences exists.
C18_ProcessSetOnDeadlineCase ==
    (raceWinner = "cmdCtx") => (cmdProcess = "set" /\ pc # "panic")

\* C19: a group-wide signal is sent at most once per invocation, only by the
\* deadline case of the final race, and only after Start or Wait returned.
C19_SignalOnlyOnDeadlineCase ==
    /\ killCount <= 1
    /\ (killCount = 0) <=> (groupSignal = NoSignal)
    /\ (killCount > 0) =>
           /\ raceWinner = "cmdCtx"
           /\ pc \in {"finalize", "done"}
           /\ groupSignal.sig = SIGTERM
           /\ reaped

C19_Witness ==
    /\ killCount = 1
    /\ raceWinner = "cmdCtx"
    /\ pc = "done"

\* C20: the drain task closes copyDoneCh exactly once, only after the end of
\* the stream, which needs every holder of the write end to have closed it,
\* and after every line it read was passed to the sink.
C20_DrainClosesAfterEOF ==
    /\ [](drain = "closed" =>
             /\ pwHolders = {}
             /\ pipe = <<>>
             /\ lrPending = <<>>
             /\ AllDelivered)
    /\ [][drain = "closed" => drain' = "closed"]_vars

C20_Witness ==
    /\ drain = "closed"
    /\ nwritten = MaxOut
    /\ gc = "dead"
    /\ AllDelivered

====
